---- MODULE Spec2Model ----
(***************************************************************************)
(* Model of the two programs of the repository (one source file):          *)
(*   - the debate orchestrator: call_gpt, call_deepseek, start_debate;     *)
(*   - the voice chatbot: OllamaClient, VoiceChatbot (capture callback,    *)
(*     segmenter process_audio, process_accumulated_audio, text_to_speech, *)
(*     change_language, change_model, start_recording, stop_recording).    *)
(* String literals of the source that are not ASCII are transliterated.    *)
(***************************************************************************)
EXTENDS Integers, Sequences, FiniteSets, TLC

VARIABLES
    \* ---- debate orchestrator (start_debate) ----
    pcD,                \* position in start_debate
    num_rounds,         \* argument
    gpt_system,         \* argument
    deepseek_system,    \* argument
    gpt_messages,       \* local list
    deepseek_messages,  \* local list
    conversation_md,    \* local list
    i,                  \* loop index of "for i in range(num_rounds)"
    calls,              \* log of the endpoint calls made, in order
    output,             \* return value of start_debate
    \* ---- speech segmenter (locals of VoiceChatbot.process_audio) ----
    seg,                \* accumulated_audio, accumulated_time, speech_started,
                        \* speech_duration, silence_duration
    fed,                \* volumes of the frames consumed so far, in order
    flushAt,            \* for each flush so far, the number of the frame that caused it
    \* ---- voice chatbot (fields of VoiceChatbot and its threads) ----
    is_recording,       \* self.is_recording
    processing_enabled, \* self.processing_enabled
    is_playing,         \* self.is_playing
    recording_stream,   \* TRUE while self.recording_stream is an open stream
    audio_queue,        \* self.audio_queue: <<chunk, volume>> pairs
    context,            \* self.context
    current_language,   \* self.current_language
    model_name,         \* self.llm_client.model_name
    cb,                 \* capture callback: <<>> when idle, or the pair it is about to put
    workers,            \* per processing thread: position and locals of process_audio
    started,            \* processing threads created so far
    delivered,          \* frames the callback has accepted so far
    switches,           \* language and model selections made so far
    lastUi              \* the last selection handler run and the context length before it

dvars == <<pcD, num_rounds, gpt_system, deepseek_system, gpt_messages,
           deepseek_messages, conversation_md, i, calls, output>>

svars == <<seg, fed, flushAt>>

vvars == <<is_recording, processing_enabled, is_playing, recording_stream,
           audio_queue, context, current_language, model_name, cb, workers,
           started, delivered, switches, lastUi>>

vars == <<dvars, svars, vvars>>

(***************************************************************************)
(* Bounds of the model.                                                    *)
(***************************************************************************)
MaxRounds == 2
\* Frames fed to the segmenter on its own.
MaxFrames == 18
\* Frames the capture callback accepts in one run of the voice chatbot.
MaxDelivered == 17
\* Frames waiting in audio_queue.
MaxQueue == 1
\* Calls of start_recording, hence processing threads.
MaxStarts == 2
\* Language and model selections.
MaxSwitches == 1
\* Entries of the chat context.
MaxContext == 3

(***************************************************************************)
(* Debate orchestrator.                                                    *)
(***************************************************************************)
\* Inputs of the form: opening statements and system prompts.
Statements == {"oA", "oB"}
SystemPrompts == {"sysA", "sysB"}
\* What a remote endpoint can do with a request: answer with a completion
\* text, or fail with an exception whose message is e.
Outcomes == [ok : {TRUE}, text : {"rA", "rB"}] \cup [ok : {FALSE}, text : {"timeout"}]

Msg(role, content) == [role |-> role, content |-> content]

\* f"[GPT chucuo: {e}]"
GptError(e) == "[GPT chucuo: " \o e \o "]"
\* f"[DeepSeek chucuo: {e}]"
DeepseekError(e) == "[DeepSeek chucuo: " \o e \o "]"

\* call_gpt: the completion's content, or the error string on any exception.
call_gpt_raw(messages, outcome) == outcome.text
call_gpt(messages, outcome) ==
    IF outcome.ok THEN outcome.text ELSE GptError(outcome.text)

\* call_deepseek: the completion's content, or the error string on any exception.
call_deepseek(messages, outcome) ==
    IF outcome.ok THEN outcome.text ELSE DeepseekError(outcome.text)

Min(a, b) == IF a < b THEN a ELSE b

\* zip(xs, ys): pairs up to the shorter list.
Zip(xs, ys) == [k \in 1..Min(Len(xs), Len(ys)) |-> <<xs[k], ys[k]>>]

RECURSIVE Flatten(_)
Flatten(ss) == IF ss = <<>> THEN <<>> ELSE Head(ss) \o Flatten(Tail(ss))

\* gpt_history: system prompt, then per zipped pair (assistant gpt, user deepseek).
GptHistorySwapped(sys, gm, dm) ==
    <<Msg("system", sys)>> \o
    Flatten([k \in 1..Len(Zip(gm, dm)) |->
        <<Msg("user", Zip(gm, dm)[k][1]), Msg("assistant", Zip(gm, dm)[k][2])>>])
GptHistory(sys, gm, dm) ==
    <<Msg("system", sys)>> \o
    Flatten([k \in 1..Len(Zip(gm, dm)) |->
        <<Msg("assistant", Zip(gm, dm)[k][1]), Msg("user", Zip(gm, dm)[k][2])>>])

\* deepseek_history: system prompt, then per zipped pair (user gpt, assistant
\* deepseek), then the reply gpt_next just obtained as a user message.
DeepseekHistoryNoNext(sys, gm, dm, gpt_next) ==
    <<Msg("system", sys)>> \o
    Flatten([k \in 1..Len(Zip(gm, dm)) |->
        <<Msg("user", Zip(gm, dm)[k][1]), Msg("assistant", Zip(gm, dm)[k][2])>>])
DeepseekHistory(sys, gm, dm, gpt_next) ==
    <<Msg("system", sys)>> \o
    Flatten([k \in 1..Len(Zip(gm, dm)) |->
        <<Msg("user", Zip(gm, dm)[k][1]), Msg("assistant", Zip(gm, dm)[k][2])>>])
    \o <<Msg("user", gpt_next)>>

\* "\n\n".join(conversation_md)
RECURSIVE Join(_, _)
Join(ss, sep) ==
    IF ss = <<>> THEN ""
    ELSE IF Len(ss) = 1 THEN ss[1]
    ELSE ss[1] \o sep \o Join(Tail(ss), sep)

\* Lines 54-55: the transcript entries of the two opening statements.
OpeningEntries(gpt_first_statement, deepseek_first_statement) ==
    << "**G laoshi:** " \o gpt_first_statement,
       "**Deep laoshi:** " \o deepseek_first_statement >>

\* Line 65: f"**GPT:** {gpt_next}"
GptEntry(gpt_next) == "**GPT:** " \o gpt_next

\* Line 75: f"**DeepSeek:** {deepseek_next}"
DeepseekEntry(deepseek_next) == "**DeepSeek:** " \o deepseek_next

\* Line 77: the closing line appended after the loop.
EndMarker == "**duihua jieshu!** OK"
WithoutClosing(md) == md
Closing(md) == Append(md, EndMarker)

\* Line 78: the returned text.
RenderTight(md) == Join(md, "\n")
Render(md) == Join(md, "\n\n")

\* start_debate has been entered with its arguments.
DebateEntered ==
    /\ pcD = "start"
    /\ gpt_messages = <<>>
    /\ deepseek_messages = <<>>
    /\ conversation_md = <<>>
    /\ i = 0
    /\ calls = <<>>
    /\ output = ""

\* Lines 48-55: the two opening statements start the per-speaker lists and
\* the transcript.
Begin ==
    /\ pcD = "start"
    /\ \E gpt_first_statement \in Statements, deepseek_first_statement \in Statements :
         /\ gpt_messages' = <<gpt_first_statement>>
         /\ deepseek_messages' = <<deepseek_first_statement>>
         /\ conversation_md' = OpeningEntries(gpt_first_statement,
                                              deepseek_first_statement)
    /\ pcD' = "gpt"
    /\ UNCHANGED <<num_rounds, gpt_system, deepseek_system, i, calls, output>>
    /\ UNCHANGED <<svars, vvars>>

\* Lines 57-65: first half of a round, the call to the GPT endpoint.
\* (GptTurnSkipped goes on to the second half without making the call.)
GptTurnSkipped ==
    /\ pcD = "gpt"
    /\ i < num_rounds
    /\ pcD' = "deepseek"
    /\ UNCHANGED <<num_rounds, gpt_system, deepseek_system, gpt_messages,
                   deepseek_messages, conversation_md, i, calls, output>>
    /\ UNCHANGED <<svars, vvars>>
GptTurn ==
    /\ pcD = "gpt"
    /\ i < num_rounds
    /\ \E outcome \in Outcomes :
         LET gpt_history == GptHistory(gpt_system, gpt_messages, deepseek_messages)
             gpt_next == call_gpt(gpt_history, outcome)
         IN /\ gpt_messages' = Append(gpt_messages, gpt_next)
            /\ conversation_md' = Append(conversation_md, GptEntry(gpt_next))
            /\ calls' = Append(calls, [endpoint |-> "gpt", messages |-> gpt_history,
                                       failed |-> ~outcome.ok, e |-> outcome.text,
                                       result |-> gpt_next, round |-> i])
    /\ pcD' = "deepseek"
    /\ UNCHANGED <<num_rounds, gpt_system, deepseek_system, deepseek_messages, i, output>>
    /\ UNCHANGED <<svars, vvars>>

\* Lines 68-75: second half of a round, the call to the DeepSeek endpoint;
\* the for loop then advances.
DeepseekTurn ==
    /\ pcD = "deepseek"
    /\ \E outcome \in Outcomes :
         LET gpt_next == gpt_messages[Len(gpt_messages)]
             deepseek_history == DeepseekHistory(deepseek_system, gpt_messages,
                                                 deepseek_messages, gpt_next)
             deepseek_next == call_deepseek(deepseek_history, outcome)
         IN /\ deepseek_messages' = Append(deepseek_messages, deepseek_next)
            /\ conversation_md' = Append(conversation_md, DeepseekEntry(deepseek_next))
            /\ calls' = Append(calls, [endpoint |-> "deepseek", messages |-> deepseek_history,
                                       failed |-> ~outcome.ok, e |-> outcome.text,
                                       result |-> deepseek_next, round |-> i])
    /\ i' = i + 1
    /\ pcD' = "gpt"
    /\ UNCHANGED <<num_rounds, gpt_system, deepseek_system, gpt_messages, output>>
    /\ UNCHANGED <<svars, vvars>>

\* Lines 77-78: the loop is exhausted; the closing line is appended and the
\* joined text returned.
Finish ==
    /\ pcD = "gpt"
    /\ i >= num_rounds
    /\ conversation_md' = Closing(conversation_md)
    /\ output' = Render(conversation_md')
    /\ pcD' = "done"
    /\ UNCHANGED <<num_rounds, gpt_system, deepseek_system, gpt_messages,
                   deepseek_messages, i, calls>>
    /\ UNCHANGED <<svars, vvars>>

(***************************************************************************)
(* IEEE-754 binary64 arithmetic, as far as the segmenter uses it.           *)
(* A double x with 0 <= x < 4 that is a multiple of 2^-56 is the pair       *)
(* <<hi, lo>> with x = (hi * 2^28 + lo) * 2^-56 and 0 <= lo < 2^28.          *)
(* (Every double in [2^-4, 4) and every sum of two of them is such a         *)
(* multiple; the segmenter's values are 0 and sums of 0.1.)                  *)
(***************************************************************************)
Limb == 2^28

\* The spacing of doubles, in units of 2^-56, in the binade of the value
\* whose high limb is hi.
Ulp(hi) ==
    IF hi < 2^25 THEN 1
    ELSE IF hi < 2^26 THEN 2
    ELSE IF hi < 2^27 THEN 4
    ELSE IF hi < 2^28 THEN 8
    ELSE IF hi < 2^29 THEN 16
    ELSE 32

\* Round-to-nearest, ties-to-even, of the exact value
\* (hi * 2^28 + lo + rem / d) * 2^-56, with 0 <= rem < d.
FRound(hi, lo, rem, d) ==
    LET q == Ulp(hi)
        r == lo % q
        base == lo - r
        twice == 2 * (r * d + rem)
        up == \/ twice > q * d
              \/ twice = q * d /\ (base \div q) % 2 = 1
        lo2 == IF up THEN base + q ELSE base
    IN IF lo2 = Limb THEN <<hi + 1, 0>> ELSE <<hi, lo2>>

\* a + b on doubles.
FAdd(a, b) ==
    LET lo == a[2] + b[2]
        hi == a[1] + b[1] + (lo \div Limb)
    IN FRound(hi, lo % Limb, 0, 1)

\* a >= b on doubles.
FGe(a, b) == a[1] > b[1] \/ (a[1] = b[1] /\ a[2] >= b[2])

FZero == <<0, 0>>

\* k quotient bits of r / d by long division: <<bits, remainder>>.
RECURSIVE DivBits(_, _, _, _)
DivBits(r, d, k, acc) ==
    IF k = 0 THEN <<acc, r>>
    ELSE IF 2 * r >= d THEN DivBits(2 * r - d, d, k - 1, 2 * acc + 1)
    ELSE DivBits(2 * r, d, k - 1, 2 * acc)

\* The double nearest to n / d, for 1/16 <= n / d < 1: Python's int / int,
\* and the value of a decimal literal such as 0.3 (3 / 10).
FromRatio(n, d) ==
    LET h == DivBits(n, d, 28, 0)
        l == DivBits(h[2], d, 28, 0)
    IN FRound(h[1], l[1], l[2], d)

(***************************************************************************)
(* Voice chatbot: configuration.                                           *)
(***************************************************************************)
SAMPLE_RATE == 16000
\* blocksize = int(SAMPLE_RATE * 0.1): the number of samples of every frame
\* the capture stream delivers.
BlockSize == SAMPLE_RATE \div 10
\* Volumes are peak amplitudes in thousandths; SILENCE_THRESHOLD = 0.015.
SILENCE_THRESHOLD == 15
MIN_SPEECH_DURATION == FromRatio(3, 10)
MIN_SILENCE_SHORT == FromRatio(2, 10)
MIN_SILENCE_DURATION == FromRatio(8, 10)
PRE_SPEECH_SHORT == FromRatio(3, 10)
PRE_SPEECH_BUFFER == FromRatio(5, 10)

\* The volumes of the frames the microphone delivers: one at the threshold
\* (silence) and one above it (voiced).
Volumes == {SILENCE_THRESHOLD, SILENCE_THRESHOLD + 1}

(***************************************************************************)
(* Speech segmenter: one iteration of the loop of process_audio.           *)
(* An audio chunk is modelled by its number of samples, the only thing the *)
(* segmenter reads of it; its volume travels beside it in the queue.       *)
(***************************************************************************)
\* Lines 382-386 (and 419-423 after a flush).
SegReset ==
    [accumulated_audio |-> <<>>, accumulated_time |-> FZero,
     speech_started |-> FALSE, speech_duration |-> FZero,
     silence_duration |-> FZero]

\* Line 396: len(audio_chunk) / SAMPLE_RATE, for the chunk sizes that occur.
Duration == [n \in {BlockSize} |-> FromRatio(n, SAMPLE_RATE)]

\* Line 399: volume > SILENCE_THRESHOLD.
Voiced(volume) == volume > SILENCE_THRESHOLD

\* Lines 396-411: the counters and the buffer after one frame.
SegStep(s, audio_chunk, volume) ==
    LET chunk_duration == Duration[audio_chunk]
        accumulated_time == FAdd(s.accumulated_time, chunk_duration)
        voiced == Voiced(volume)
        speech_started ==
            IF voiced /\ ~s.speech_started /\ FGe(accumulated_time, PRE_SPEECH_BUFFER)
            THEN TRUE ELSE s.speech_started
    IN [accumulated_audio |-> Append(s.accumulated_audio, audio_chunk),
        accumulated_time |-> accumulated_time,
        speech_started |-> speech_started,
        speech_duration |->
            IF voiced /\ speech_started
            THEN FAdd(s.speech_duration, chunk_duration) ELSE s.speech_duration,
        silence_duration |->
            IF voiced THEN (IF speech_started THEN FZero ELSE s.silence_duration)
            ELSE IF speech_started
                 THEN FAdd(s.silence_duration, chunk_duration)
                 ELSE s.silence_duration]

\* Lines 413-415.  (should_process_on_time flushes on elapsed time alone.)
should_process_on_time(s) == FGe(s.accumulated_time, MIN_SILENCE_DURATION)
should_process(s) ==
    /\ s.speech_started
    /\ FGe(s.speech_duration, MIN_SPEECH_DURATION)
    /\ FGe(s.silence_duration, MIN_SILENCE_DURATION)

\* process_audio has been entered (lines 382-386) and nothing consumed.
SegmenterEntered ==
    /\ seg = SegReset
    /\ fed = <<>>
    /\ flushAt = <<>>

\* Lines 395-424, one iteration of the loop with a frame at hand: the frame is
\* counted and buffered, and when should_process holds the buffer is handed to
\* process_accumulated_audio (the flush) and the locals are reset.
Feed ==
    /\ Len(fed) < MaxFrames
    /\ \E volume \in Volumes :
         LET s == SegStep(seg, BlockSize, volume) IN
         /\ fed' = Append(fed, volume)
         /\ IF should_process(s)
            THEN /\ seg' = SegReset
                 /\ flushAt' = Append(flushAt, Len(fed'))
            ELSE /\ seg' = s
                 /\ UNCHANGED flushAt
    /\ UNCHANGED <<dvars, vvars>>

(***************************************************************************)
(* Voice chatbot: shared state and threads.                                *)
(***************************************************************************)
\* LANGUAGES (lines 153-166): the system prompt of each language.
Languages == {"English", "Deutsch", "Zhongwen"}
SystemPrompt(language) ==
    CASE language = "English" -> "You are a friendly English tutor."
      [] language = "Deutsch" -> "Du bist ein freundlicher Deutschlehrer."
      [] OTHER -> "Ni shi yi wei youhao de zhongwen laoshi."
\* AVAILABLE_MODELS (lines 175-178).
Models == {"llama3.1", "deepseek-R1"}

\* What the transcriber makes of a segment: a text, nothing, or an exception.
Transcriptions == {"hello", "", "raise"}
\* What OllamaClient.get_response returns: the reply, or None (non-200
\* status, transport failure).
Replies == {"hi", "None"}

Workers == 1..MaxStarts

\* Lines 230-233, and 569-571 / 587-589: the context of a fresh conversation.
PatchedContext(language) ==
    <<Msg("system", SystemPrompt(language))>> \o Tail(context)
FreshContext(language) == <<Msg("system", SystemPrompt(language))>>

\* VoiceChatbot.__init__ (lines 213-254); no processing thread exists yet.
VoiceConstructed ==
    /\ is_recording = FALSE
    /\ processing_enabled = TRUE
    /\ is_playing = FALSE
    /\ recording_stream = FALSE
    /\ audio_queue = <<>>
    /\ current_language = "English"
    /\ context = FreshContext("English")
    /\ model_name = "llama3.1"
    /\ cb = <<>>
    /\ workers = [w \in Workers |-> [pc |-> "none", s |-> SegReset]]
    /\ started = 0
    /\ delivered = 0
    /\ switches = 0
    /\ lastUi = [op |-> "none", before |-> 0]

\* ---- operator actions (tkinter handlers, run on the UI thread) ----

\* start_recording (lines 348-367): the stream is opened and a new processing
\* thread is started at the top of process_audio.
start_recording ==
    /\ ~is_recording
    /\ started < MaxStarts
    /\ is_recording' = TRUE
    /\ recording_stream' = TRUE
    /\ started' = started + 1
    /\ workers' = [workers EXCEPT ![started + 1] = [pc |-> "loop", s |-> SegReset]]
    /\ UNCHANGED <<processing_enabled, is_playing, audio_queue, context,
                   current_language, model_name, cb, delivered, switches, lastUi>>
    /\ UNCHANGED <<dvars, svars>>

\* stop_recording (lines 369-378): stream.stop() returns once the callback in
\* progress, if any, has returned.
stop_recording ==
    /\ is_recording
    /\ cb = <<>>
    /\ is_recording' = FALSE
    /\ recording_stream' = FALSE
    /\ UNCHANGED <<processing_enabled, is_playing, audio_queue, context,
                   current_language, model_name, cb, workers, started,
                   delivered, switches, lastUi>>
    /\ UNCHANGED <<dvars, svars>>

\* change_language (lines 563-574) with new_language selected in the combo box.
change_language_patch ==
    /\ switches < MaxSwitches
    /\ \E new_language \in Languages :
         /\ IF new_language # current_language
            THEN /\ current_language' = new_language
                 /\ context' = PatchedContext(new_language)
            ELSE UNCHANGED <<current_language, context>>
         /\ lastUi' = [op |-> "change_language", before |-> Len(context)]
    /\ switches' = switches + 1
    /\ UNCHANGED <<is_recording, processing_enabled, is_playing, recording_stream,
                   audio_queue, model_name, cb, workers, started, delivered>>
    /\ UNCHANGED <<dvars, svars>>
change_language ==
    /\ switches < MaxSwitches
    /\ \E new_language \in Languages :
         /\ IF new_language # current_language
            THEN /\ current_language' = new_language
                 /\ context' = FreshContext(new_language)
            ELSE UNCHANGED <<current_language, context>>
         /\ lastUi' = [op |-> "change_language", before |-> Len(context)]
    /\ switches' = switches + 1
    /\ UNCHANGED <<is_recording, processing_enabled, is_playing, recording_stream,
                   audio_queue, model_name, cb, workers, started, delivered>>
    /\ UNCHANGED <<dvars, svars>>

\* change_model (lines 576-589) with a model selected in the combo box.
\* (change_model_append adds the system entry instead of replacing the list.)
change_model_append ==
    /\ switches < MaxSwitches
    /\ \E selected_model \in Models : model_name' = selected_model
    /\ context' = context \o FreshContext(current_language)
    /\ lastUi' = [op |-> "change_model", before |-> Len(context)]
    /\ switches' = switches + 1
    /\ UNCHANGED <<is_recording, processing_enabled, is_playing, recording_stream,
                   audio_queue, current_language, cb, workers, started, delivered>>
    /\ UNCHANGED <<dvars, svars>>
change_model ==
    /\ switches < MaxSwitches
    /\ \E selected_model \in Models : model_name' = selected_model
    /\ context' = FreshContext(current_language)
    /\ lastUi' = [op |-> "change_model", before |-> Len(context)]
    /\ switches' = switches + 1
    /\ UNCHANGED <<is_recording, processing_enabled, is_playing, recording_stream,
                   audio_queue, current_language, cb, workers, started, delivered>>
    /\ UNCHANGED <<dvars, svars>>

\* ---- capture callback (the audio subsystem's thread) ----

\* _recording_callback, lines 338-345: a frame arrives, its volume is taken
\* and the condition of line 345 is evaluated; a frame refused is dropped.
callback_check ==
    /\ recording_stream
    /\ cb = <<>>
    /\ delivered < MaxDelivered
    /\ Len(audio_queue) < MaxQueue
    /\ \E volume \in Volumes :
         IF processing_enabled /\ ~is_playing
         THEN /\ cb' = <<BlockSize, volume>>
              /\ delivered' = delivered + 1
         ELSE UNCHANGED <<cb, delivered>>
    /\ UNCHANGED <<is_recording, processing_enabled, is_playing, recording_stream,
                   audio_queue, context, current_language, model_name, workers,
                   started, switches, lastUi>>
    /\ UNCHANGED <<dvars, svars>>

\* _recording_callback, line 346: the put that follows a condition found true.
callback_put ==
    /\ cb # <<>>
    /\ audio_queue' = Append(audio_queue, cb)
    /\ cb' = <<>>
    /\ UNCHANGED <<is_recording, processing_enabled, is_playing, recording_stream,
                   context, current_language, model_name, workers, started,
                   delivered, switches, lastUi>>
    /\ UNCHANGED <<dvars, svars>>

\* ---- processing thread w ----
At(w, pc) == workers[w].pc = pc
Goto(w, pc) == [workers EXCEPT ![w].pc = pc]

\* process_audio, lines 388-393: the loop condition, then the enable check
\* (a disabled worker sleeps and comes back here). A thread that leaves the
\* loop ends, and its locals with it.
worker_top(w) ==
    /\ At(w, "loop")
    /\ IF ~is_recording
       THEN workers' = [workers EXCEPT ![w] = [pc |-> "exit", s |-> SegReset]]
       ELSE IF ~processing_enabled THEN UNCHANGED workers
       ELSE workers' = Goto(w, "get")
    /\ UNCHANGED <<is_recording, processing_enabled, is_playing, recording_stream,
                   audio_queue, context, current_language, model_name, cb,
                   started, delivered, switches, lastUi>>
    /\ UNCHANGED <<dvars, svars>>

\* process_audio, lines 395-417 and 426-427: audio_queue.get(timeout=0.5);
\* with a frame, one step of the segmenter; with none, queue.Empty.
worker_get(w) ==
    /\ At(w, "get")
    /\ IF audio_queue = <<>>
       THEN /\ workers' = Goto(w, "loop")
            /\ UNCHANGED audio_queue
       ELSE LET s == SegStep(workers[w].s, Head(audio_queue)[1], Head(audio_queue)[2])
            IN /\ audio_queue' = Tail(audio_queue)
               /\ workers' = [workers EXCEPT ![w] =
                      [pc |-> IF should_process(s) THEN "paa_check" ELSE "loop",
                       s |-> s]]
    /\ UNCHANGED <<is_recording, processing_enabled, is_playing, recording_stream,
                   context, current_language, model_name, cb, started, delivered,
                   switches, lastUi>>
    /\ UNCHANGED <<dvars, svars>>

\* process_accumulated_audio, lines 434-435: the early return (after which
\* process_audio resets its locals, lines 419-424), or on to the try block.
worker_paa_check(w) ==
    /\ At(w, "paa_check")
    /\ IF workers[w].s.accumulated_audio = <<>> \/ ~processing_enabled
       THEN workers' = [workers EXCEPT ![w] = [pc |-> "loop", s |-> SegReset]]
       ELSE workers' = Goto(w, "paa_disable")
    /\ UNCHANGED <<is_recording, processing_enabled, is_playing, recording_stream,
                   audio_queue, context, current_language, model_name, cb,
                   started, delivered, switches, lastUi>>
    /\ UNCHANGED <<dvars, svars>>

\* process_accumulated_audio, lines 439-452: processing is disabled, the audio
\* is written to the temporary file (which may raise) and the queue drained.
worker_paa_disable(w) ==
    /\ At(w, "paa_disable")
    /\ processing_enabled' = FALSE
    /\ \/ /\ audio_queue' = <<>>
          /\ workers' = Goto(w, "transcribe")
       \/ /\ UNCHANGED audio_queue
          /\ workers' = Goto(w, "paa_finally")
    /\ UNCHANGED <<is_recording, is_playing, recording_stream, context,
                   current_language, model_name, cb, started, delivered,
                   switches, lastUi>>
    /\ UNCHANGED <<dvars, svars>>

\* process_accumulated_audio, lines 455-468: the transcription returns or
\* raises; a non-empty text is appended to the context as a user entry.
worker_transcribe(w) ==
    /\ At(w, "transcribe")
    /\ \E user_text \in Transcriptions :
         IF user_text \in {"", "raise"}
         THEN /\ workers' = Goto(w, "paa_finally")
              /\ UNCHANGED context
         ELSE /\ Len(context) < MaxContext
              /\ context' = Append(context, Msg("user", user_text))
              /\ workers' = Goto(w, "respond")
    /\ UNCHANGED <<is_recording, processing_enabled, is_playing, recording_stream,
                   audio_queue, current_language, model_name, cb, started,
                   delivered, switches, lastUi>>
    /\ UNCHANGED <<dvars, svars>>

\* process_accumulated_audio, lines 471-479: get_response returns; a reply is
\* appended to the context as an assistant entry, None is not.
worker_respond(w) ==
    /\ At(w, "respond")
    /\ \E ai_response \in Replies :
         IF ai_response = "None"
         THEN /\ workers' = Goto(w, "paa_finally")
              /\ UNCHANGED context
         ELSE /\ Len(context) < MaxContext
              /\ context' = Append(context, Msg("assistant", ai_response))
              /\ workers' = Goto(w, "tts")
    /\ UNCHANGED <<is_recording, processing_enabled, is_playing, recording_stream,
                   audio_queue, current_language, model_name, cb, started,
                   delivered, switches, lastUi>>
    /\ UNCHANGED <<dvars, svars>>

\* text_to_speech, lines 497-513: processing is disabled and the queue
\* drained; the synthesis raises, or playback is about to start.
worker_tts(w) ==
    /\ At(w, "tts")
    /\ processing_enabled' = FALSE
    /\ audio_queue' = <<>>
    /\ \/ /\ is_playing' = TRUE
          /\ workers' = Goto(w, "playing")
       \/ /\ UNCHANGED is_playing
          /\ workers' = Goto(w, "tts_finally")
    /\ UNCHANGED <<is_recording, recording_stream, context, current_language,
                   model_name, cb, started, delivered, switches, lastUi>>
    /\ UNCHANGED <<dvars, svars>>

\* text_to_speech, lines 519-531: playback runs to its end, then the settle
\* delay, is_playing is cleared and the queue drained; or playback raises.
worker_playing(w) ==
    /\ At(w, "playing")
    /\ \/ /\ is_playing' = FALSE
          /\ audio_queue' = <<>>
       \/ UNCHANGED <<is_playing, audio_queue>>
    /\ workers' = Goto(w, "tts_finally")
    /\ UNCHANGED <<is_recording, processing_enabled, recording_stream, context,
                   current_language, model_name, cb, started, delivered,
                   switches, lastUi>>
    /\ UNCHANGED <<dvars, svars>>

\* text_to_speech, lines 537-540: the finally block.
worker_tts_finally(w) ==
    /\ At(w, "tts_finally")
    /\ is_playing' = FALSE
    /\ processing_enabled' = TRUE
    /\ workers' = Goto(w, "paa_finally")
    /\ UNCHANGED <<is_recording, recording_stream, audio_queue, context,
                   current_language, model_name, cb, started, delivered,
                   switches, lastUi>>
    /\ UNCHANGED <<dvars, svars>>

\* process_accumulated_audio, lines 488-490: the finally block; back in
\* process_audio the locals are reset (lines 419-424).
\* (worker_paa_finally_keep leaves the flag as it finds it.)
worker_paa_finally_keep(w) ==
    /\ At(w, "paa_finally")
    /\ workers' = [workers EXCEPT ![w] = [pc |-> "loop", s |-> SegReset]]
    /\ UNCHANGED <<is_recording, processing_enabled, is_playing, recording_stream,
                   audio_queue, context, current_language, model_name, cb,
                   started, delivered, switches, lastUi>>
    /\ UNCHANGED <<dvars, svars>>
worker_paa_finally(w) ==
    /\ At(w, "paa_finally")
    /\ processing_enabled' = TRUE
    /\ workers' = [workers EXCEPT ![w] = [pc |-> "loop", s |-> SegReset]]
    /\ UNCHANGED <<is_recording, is_playing, recording_stream, audio_queue,
                   context, current_language, model_name, cb, started,
                   delivered, switches, lastUi>>
    /\ UNCHANGED <<dvars, svars>>

(***************************************************************************)
(* Specifications.                                                         *)
(***************************************************************************)
InitDebate ==
    /\ DebateEntered
    /\ num_rounds \in 1..MaxRounds
    /\ gpt_system \in SystemPrompts
    /\ deepseek_system \in SystemPrompts
    /\ SegmenterEntered
    /\ VoiceConstructed

NextDebate == Begin \/ GptTurn \/ DeepseekTurn \/ Finish

SpecDebate == InitDebate /\ [][NextDebate]_vars

\* start_debate runs on one thread and every call returns (with a completion
\* or an exception): the function keeps taking its next step.
SpecDebateLive == SpecDebate /\ WF_vars(NextDebate)

InitSeg ==
    /\ SegmenterEntered
    /\ DebateEntered
    /\ num_rounds = 1
    /\ gpt_system = "sysA"
    /\ deepseek_system = "sysB"
    /\ VoiceConstructed

NextSeg == Feed

SpecSeg == InitSeg /\ [][NextSeg]_vars

InitVoice ==
    /\ VoiceConstructed
    /\ SegmenterEntered
    /\ DebateEntered
    /\ num_rounds = 1
    /\ gpt_system = "sysA"
    /\ deepseek_system = "sysB"

NextVoice ==
    \/ start_recording
    \/ stop_recording
    \/ change_language
    \/ change_model
    \/ callback_check
    \/ callback_put
    \/ \E w \in Workers :
          \/ worker_top(w)
          \/ worker_get(w)
          \/ worker_paa_check(w)
          \/ worker_paa_disable(w)
          \/ worker_transcribe(w)
          \/ worker_respond(w)
          \/ worker_tts(w)
          \/ worker_playing(w)
          \/ worker_tts_finally(w)
          \/ worker_paa_finally(w)

SpecVoice == InitVoice /\ [][NextVoice]_vars

\* The next step of processing thread w, wherever it is.
worker_step(w) ==
    \/ worker_top(w)
    \/ worker_get(w)
    \/ worker_paa_check(w)
    \/ worker_paa_disable(w)
    \/ worker_transcribe(w)
    \/ worker_respond(w)
    \/ worker_tts(w)
    \/ worker_playing(w)
    \/ worker_tts_finally(w)
    \/ worker_paa_finally(w)

\* Every thread that can run does: a processing thread keeps taking its next
\* step (sleeps and timeouts end; transcription, model call and playback
\* return or raise), and a callback that has passed its test does its put.
\* The operator is under no obligation.
ThreadsRun == (\A w \in Workers : WF_vars(worker_step(w))) /\ WF_vars(callback_put)

SpecVoiceLive == SpecVoice /\ ThreadsRun

\* One recording session: the operator starts recording once; everything else
\* as in SpecVoice.
first_start_recording == started = 0 /\ start_recording

NextSession ==
    \/ first_start_recording
    \/ stop_recording
    \/ change_language
    \/ change_model
    \/ callback_check
    \/ callback_put
    \/ \E w \in Workers :
          \/ worker_top(w)
          \/ worker_get(w)
          \/ worker_paa_check(w)
          \/ worker_paa_disable(w)
          \/ worker_transcribe(w)
          \/ worker_respond(w)
          \/ worker_tts(w)
          \/ worker_playing(w)
          \/ worker_tts_finally(w)
          \/ worker_paa_finally(w)

SpecSession == InitVoice /\ [][NextSession]_vars

SpecSessionLive == SpecSession /\ ThreadsRun

(***************************************************************************)
(* Debate orchestrator: properties.                                        *)
(***************************************************************************)
\* The statements of the debate in emission order, independently of the
\* per-speaker lists: opening A, opening B, then each call's result.
Statement(k) ==
    IF k = 1 THEN gpt_messages[1]
    ELSE IF k = 2 THEN deepseek_messages[1]
    ELSE calls[k - 2].result
\* The speaker of the k-th statement: A (gpt) and B (deepseek) in turn.
Speaker(k) == IF k % 2 = 1 THEN "gpt" ELSE "deepseek"
SystemOf(endpoint) == IF endpoint = "gpt" THEN gpt_system ELSE deepseek_system
ErrorOf(c) == IF c.endpoint = "gpt" THEN GptError(c.e) ELSE DeepseekError(c.e)
LabelOf(endpoint) == IF endpoint = "gpt" THEN "**GPT:** " ELSE "**DeepSeek:** "

\* C1 (as stated): once start_debate has returned, the transcript holds exactly
\* 2 + 2N entries: the two opening statements, then per round A's reply and
\* B's reply.
C1_TranscriptHas2Plus2N ==
    pcD = "done" => Len(conversation_md) = 2 + 2 * num_rounds

\* C1 (amended): once start_debate has returned, the transcript holds the
\* 2 + 2N statement entries (opening A, opening B, then per round A's reply
\* followed by B's reply), each behind its speaker label, and after them one
\* closing entry: 3 + 2N entries in all.
C1_TranscriptEntries ==
    pcD = "done" =>
        /\ Len(conversation_md) = 3 + 2 * num_rounds
        /\ Len(calls) = 2 * num_rounds
        /\ conversation_md[1] = "**G laoshi:** " \o Statement(1)
        /\ conversation_md[2] = "**Deep laoshi:** " \o Statement(2)
        /\ \A n \in 1..(2 * num_rounds) :
              /\ calls[n].endpoint = Speaker(n)
              /\ conversation_md[n + 2] = LabelOf(Speaker(n)) \o Statement(n + 2)
        /\ conversation_md[3 + 2 * num_rounds] = EndMarker

C1_Witness ==
    pcD = "done" /\ num_rounds = 2 /\ Len(conversation_md) = 7

\* C2: the message list of every call starts with the called endpoint's
\* system prompt, then holds every statement emitted before the call, once and
\* in order, tagged assistant when the called endpoint said it and user when
\* the other one did; after the system entry the roles alternate.
C2_HistoryRoles ==
    \A n \in 1..Len(calls) :
        LET c == calls[n] IN
        /\ Len(c.messages) = n + 2
        /\ c.messages[1] = Msg("system", SystemOf(c.endpoint))
        /\ \A k \in 1..(n + 1) :
              c.messages[k + 1] =
                  Msg(IF Speaker(k) = c.endpoint THEN "assistant" ELSE "user",
                      Statement(k))
        /\ \A k \in 2..(n + 1) : c.messages[k].role # c.messages[k + 1].role

C2_Witness ==
    /\ Len(calls) = 4
    /\ calls[3].endpoint = "gpt" /\ calls[4].endpoint = "deepseek"
    /\ Len(calls[4].messages) = 6

\* C3 (as stated): with one round and both callers returning their fixed
\* strings rA and rB, the transcript is <<oA, oB, rA, rB>> and nothing else.
C3_TranscriptVerbatim ==
    (pcD = "done" /\ num_rounds = 1 /\ ~calls[1].failed /\ ~calls[2].failed) =>
        conversation_md = <<Statement(1), Statement(2), calls[1].e, calls[2].e>>

\* C3 (amended): with one round and both callers returning their fixed
\* strings rA and rB, the returned text is the four statements in the order
\* oA, oB, rA, rB, each behind its speaker label, then the closing line, the
\* five joined by blank lines.
C3_ReturnedText ==
    (pcD = "done" /\ num_rounds = 1 /\ ~calls[1].failed /\ ~calls[2].failed) =>
        output = "**G laoshi:** " \o Statement(1) \o "\n\n"
                 \o "**Deep laoshi:** " \o Statement(2) \o "\n\n"
                 \o "**GPT:** " \o calls[1].e \o "\n\n"
                 \o "**DeepSeek:** " \o calls[2].e \o "\n\n"
                 \o "**duihua jieshu!** OK"

C3_Witness ==
    /\ pcD = "done" /\ num_rounds = 1
    /\ ~calls[1].failed /\ ~calls[2].failed
    /\ gpt_messages[1] = "oA" /\ deepseek_messages[1] = "oB"
    /\ calls[1].e = "rA" /\ calls[2].e = "rB"

\* C4: a failed call does not end the loop: all N rounds are made whatever
\* calls fail; the failed turn's entry in the transcript carries the error
\* string, and every later call receives that error string as a message,
\* tagged user for the other endpoint and assistant for the failing one.
C4_FailureIsAReply ==
    /\ pcD = "done" => (i = num_rounds /\ Len(calls) = 2 * num_rounds)
    /\ \A n \in 1..Len(calls) :
          calls[n].failed =>
              /\ calls[n].result = ErrorOf(calls[n])
              /\ conversation_md[n + 2] = LabelOf(calls[n].endpoint) \o ErrorOf(calls[n])
              /\ \A m \in (n + 1)..Len(calls) :
                    calls[m].messages[n + 3] =
                        Msg(IF calls[m].endpoint = calls[n].endpoint
                            THEN "assistant" ELSE "user", ErrorOf(calls[n]))

C4_Witness ==
    /\ pcD = "done" /\ num_rounds = 2
    /\ calls[1].failed /\ calls[2].failed /\ ~calls[3].failed
    /\ calls[3].messages[4] = Msg("assistant", GptError("timeout"))
    /\ calls[3].messages[5] = Msg("user", DeepseekError("timeout"))

\* C12: with the leading system entry removed, the contents of the message
\* list of every call are, in order, all the statements emitted before that
\* call: both opening statements and every earlier reply of both endpoints.
C12_FullInterleavedHistory ==
    \A n \in 1..Len(calls) :
        LET messages == calls[n].messages IN
        [k \in 1..(Len(messages) - 1) |-> messages[k + 1].content] =
            [k \in 1..(n + 1) |-> Statement(k)]

C12_Witness ==
    /\ Len(calls) = 4
    /\ calls[2].failed
    /\ [k \in 1..5 |-> calls[4].messages[k + 1].content] =
           <<"oA", "oB", "rA", DeepseekError("timeout"), "rB">>

\* C13: the calls go A, B, A, B, ..., the n-th call belonging to round
\* (n - 1) \div 2, never more than N of each; start_debate returns, and when
\* it has, exactly N calls to A and N calls to B have been made.
CallsTo(endpoint) == Cardinality({n \in 1..Len(calls) : calls[n].endpoint = endpoint})
C13_AlternateAndTerminate ==
    /\ [] /\ \A n \in 1..Len(calls) :
               /\ calls[n].endpoint = Speaker(n)
               /\ calls[n].round = (n - 1) \div 2
          /\ CallsTo("deepseek") <= CallsTo("gpt")
          /\ CallsTo("gpt") <= CallsTo("deepseek") + 1
          /\ CallsTo("gpt") <= num_rounds
          /\ pcD = "done" =>
                (CallsTo("gpt") = num_rounds /\ CallsTo("deepseek") = num_rounds)
    /\ <>(pcD = "done")

C13_Witness ==
    /\ pcD = "done" /\ num_rounds = 2
    /\ [n \in 1..Len(calls) |-> calls[n].endpoint] = <<"gpt", "deepseek", "gpt", "deepseek">>

(***************************************************************************)
(* Speech segmenter: properties.                                           *)
(***************************************************************************)
\* Frames are told apart by the microphone level alone, not by the
\* segmenter's counters.
Loud(k) == fed[k] > SILENCE_THRESHOLD
Quiet(k) == fed[k] <= SILENCE_THRESHOLD
\* n frames last at least num / den seconds (exact arithmetic).
LastsAtLeast(n, num, den) == n * BlockSize * den >= num * SAMPLE_RATE
\* The length of the longest run of frames from frame k on that are all loud
\* (loud = TRUE) or all quiet (loud = FALSE).
RECURSIVE Run(_, _)
Run(k, loud) ==
    IF k > Len(fed) \/ Loud(k) # loud THEN 0 ELSE 1 + Run(k + 1, loud)
\* The frames consumed so far as a run of quiet frames, then a run of loud
\* ones, then a run of quiet ones.
LeadQuiet == Run(1, FALSE)
ThenLoud == Run(LeadQuiet + 1, TRUE)
ThenQuiet == Run(LeadQuiet + ThenLoud + 1, FALSE)
QuietLoudQuiet == LeadQuiet + ThenLoud + ThenQuiet = Len(fed)

\* C5: as long as every frame consumed has a volume at or below the silence
\* threshold, nothing has been flushed and the buffer holds every frame
\* consumed.
C5_SilenceNeverFlushes ==
    (\A k \in 1..Len(fed) : Quiet(k)) =>
        /\ flushAt = <<>>
        /\ seg.accumulated_audio = [k \in 1..Len(fed) |-> BlockSize]

C5_Witness ==
    /\ Len(fed) = 17
    /\ \A k \in 1..Len(fed) : Quiet(k)
    /\ Len(seg.accumulated_audio) = 17

\* C6: from reset counters, frames lasting at least the pre-speech buffer,
\* then a voiced run lasting at least the minimum speech duration, then
\* unvoiced frames lasting at least the minimum silence duration: exactly one
\* flush has occurred, on the unvoiced frame with which the trailing silence
\* reached the minimum silence duration, and right after it the counters are
\* zero, speech-started is false and the buffer is empty.
C6_OneFlushAtSilenceThreshold ==
    ( /\ QuietLoudQuiet
      /\ LastsAtLeast(LeadQuiet, 5, 10)
      /\ LastsAtLeast(ThenLoud, 3, 10)
      /\ LastsAtLeast(ThenQuiet, 8, 10) ) =>
        /\ Len(flushAt) = 1
        /\ LastsAtLeast(flushAt[1] - LeadQuiet - ThenLoud, 8, 10)
        /\ ~LastsAtLeast(flushAt[1] - LeadQuiet - ThenLoud - 1, 8, 10)
        /\ (flushAt[1] = Len(fed) => seg = SegReset)

\* C14: frames lasting at least the pre-speech buffer, then a voiced run
\* shorter than the minimum speech duration, then unvoiced frames lasting
\* longer than the minimum silence duration (0.9 s, so that the frame on which
\* the silence counter passes 0.8 is not in question): a flush has occurred.
C14_BlipIsFlushed ==
    ( /\ QuietLoudQuiet
      /\ LastsAtLeast(LeadQuiet, 5, 10)
      /\ ThenLoud >= 1
      /\ ~LastsAtLeast(ThenLoud, 3, 10)
      /\ LastsAtLeast(ThenQuiet, 9, 10) ) =>
        Len(flushAt) >= 1

\* C15: while speech-started is false, speech duration and trailing silence
\* are zero; and speech-started turns true only on a voiced frame with which
\* the frames consumed since the last reset last at least the pre-speech
\* buffer.
C15_SpeechStartsAfterBuffer ==
    /\ [](~seg.speech_started =>
            (seg.speech_duration = FZero /\ seg.silence_duration = FZero))
    /\ [][ (~seg.speech_started /\ seg'.speech_started) =>
              /\ fed'[Len(fed')] > SILENCE_THRESHOLD
              /\ LastsAtLeast(Len(seg'.accumulated_audio), 5, 10) ]_vars

C15_Witness ==
    /\ fed = <<16, 16, 16, 16, 16>>
    /\ seg.speech_started
    /\ seg.speech_duration = Duration[BlockSize]
    /\ seg.silence_duration = FZero

\* C16: every flush comes on a frame that ends a run of unvoiced frames
\* lasting at least the minimum silence duration, in a segment whose voiced
\* frames last at least the minimum speech duration; a voiced frame leaves the
\* trailing silence at zero and an unvoiced frame that does not flush leaves
\* the speech duration as it was.
FlushedAfterPause(j) ==
    LET f == flushAt[j]
        prev == IF j = 1 THEN 0 ELSE flushAt[j - 1]
    IN /\ \E n \in 1..(f - prev) :
             /\ LastsAtLeast(n, 8, 10)
             /\ \A k \in (f - n + 1)..f : Quiet(k)
       /\ LastsAtLeast(Cardinality({k \in (prev + 1)..f : Loud(k)}), 3, 10)
C16_FlushOnlyAfterSustainedPause ==
    /\ [](\A j \in 1..Len(flushAt) : FlushedAfterPause(j))
    /\ [][ /\ fed'[Len(fed')] > SILENCE_THRESHOLD =>
                seg'.silence_duration = FZero
           /\ (fed'[Len(fed')] <= SILENCE_THRESHOLD /\ flushAt' = flushAt) =>
                seg'.speech_duration = seg.speech_duration ]_vars

C16_Witness ==
    /\ flushAt = <<18>>
    /\ Loud(6) /\ Quiet(7) /\ Loud(8) /\ Loud(9)
    /\ seg = SegReset

(***************************************************************************)
(* Voice chatbot: properties.                                              *)
(***************************************************************************)
\* C7: a change_language that selects another language, and every
\* change_model, leaves the context with exactly one entry, the system entry
\* with the prompt of the language that is then current.
C7_SwitchResetsContext ==
    [][ ( /\ switches' # switches
          /\ \/ lastUi'.op = "change_model"
             \/ current_language' # current_language ) =>
            context' = <<Msg("system", SystemPrompt(current_language'))>> ]_vars

C7_Witness ==
    /\ lastUi = [op |-> "change_language", before |-> 3]
    /\ current_language = "Deutsch"
    /\ context = <<Msg("system", "Du bist ein freundlicher Deutschlehrer.")>>

\* C8: in no step taken while processing_enabled is false does audio_queue
\* grow.
C8_NoEnqueueWhileDisabled ==
    [][ ~processing_enabled => Len(audio_queue') <= Len(audio_queue) ]_vars

\* C9: after the system entry at its head the context alternates user,
\* assistant, user, assistant, ..., starting with user.
C9_ContextAlternates ==
    \A k \in 2..Len(context) :
        context[k].role = IF k % 2 = 0 THEN "user" ELSE "assistant"

\* C10: no two processing threads are transcribing, awaiting the model's
\* response or speaking at once, and none is while another is taking a frame
\* from the queue into the segmenter.
Busy(w) == workers[w].pc \in {"transcribe", "respond", "tts", "playing"}
Consuming(w) == workers[w].pc = "get" /\ audio_queue # <<>>
C10_OneStageAtATime ==
    \A w1 \in Workers, w2 \in Workers :
        (w1 # w2 /\ Busy(w1)) => ~Busy(w2) /\ ~Consuming(w2)

\* C11: while a reply is being played, no step puts a frame on audio_queue and
\* processing_enabled is false, and it is still false when playback ends.
Playing(w) == workers[w].pc = "playing"
C11_NoCaptureDuringPlayback ==
    [][ (\E w \in Workers : Playing(w)) =>
            /\ Len(audio_queue') <= Len(audio_queue)
            /\ ~processing_enabled
            /\ ~processing_enabled' ]_vars

\* C17: the context always holds exactly one system entry, at its head.
C17_OneSystemEntryAtHead ==
    /\ Len(context) >= 1
    /\ context[1].role = "system"
    /\ \A k \in 2..Len(context) : context[k].role # "system"

C17_Witness ==
    /\ lastUi = [op |-> "change_model", before |-> 2]
    /\ Len(context) = 2
    /\ context[1] = Msg("system", SystemPrompt(current_language))
    /\ context[2].role = "assistant"

\* C18: at most one process_audio thread is alive.
Alive(w) == workers[w].pc \notin {"none", "exit"}
C18_SingleWorker == Cardinality({w \in Workers : Alive(w)}) <= 1

\* C19: whenever recording has been stopped, the processing thread started by
\* the start_recording before it eventually leaves its loop.
C19_StopEndsWorker ==
    \A w \in Workers : (started = w /\ ~is_recording) ~> (workers[w].pc = "exit")

\* C20: a thread that has begun a flush (transcription, model call, synthesis,
\* playback, or the finally blocks after them) is eventually back at the top
\* of its listening loop with processing_enabled true and is_playing false;
\* and processing_enabled, once false, eventually is true again with
\* is_playing false.
InFlush(w) ==
    workers[w].pc \in {"transcribe", "respond", "tts", "playing",
                       "tts_finally", "paa_finally"}
C20_PipelineRecovers ==
    /\ \A w \in Workers :
          InFlush(w) ~> (workers[w].pc = "loop" /\ processing_enabled /\ ~is_playing)
    /\ (~processing_enabled) ~> (processing_enabled /\ ~is_playing)

C20_Witness ==
    /\ workers[1].pc = "loop"
    /\ processing_enabled /\ ~is_playing
    /\ delivered = 17
    /\ context = <<Msg("system", SystemPrompt("English")), Msg("user", "hello")>>

====
